---- MODULE Spec2Model ----
(***************************************************************************)
(* Model of velero-csi-plugin/util.go: the resolver helpers of the CSI     *)
(* plugin.  Every helper is a read-only query against the API server.  A   *)
(* behaviour is one invocation of one helper: Init draws the helper (op),  *)
(* its arguments and the objects the server holds; the actions are the     *)
(* helper's steps.  Remote calls may fail: the failure is drawn with \E    *)
(* where the call is made.                                                 *)
(*                                                                         *)
(* Go values: a string is a sequence of one-character strings where the    *)
(* code looks inside it (annotations, mount names) and a TLA+ string where *)
(* it only compares it.  A pointer is a sequence of length <= 1 (<<>> is   *)
(* nil).  An error is a record [msg, cause]; ErrNil is the nil error.      *)
(***************************************************************************)
EXTENDS Integers, Sequences, FiniteSets, TLC

VARIABLES
    op,           \* the helper this behaviour invokes
    pc,           \* position inside the helper
    ret,          \* what the helper returned: [val, err]
    calls,        \* remote calls issued so far, in order: [api, key]
    pvc,          \* getPVForPVC: the claim argument
    pvStore,      \* names of the PersistentVolumes the server holds
    podItems,     \* podList.Items the server returns for the namespace
    pvcName,      \* claim name argument
    pod,          \* getPodVolumeNameForPVC: the pod argument
    pods,         \* isPVCBackedUpByRestic: local `pods`
    idx,          \* isPVCBackedUpByRestic: position of the range loop
    lookups,      \* isPVCBackedUpByRestic: results of getPodVolumeNameForPVC
    provisioner,  \* getVolumeSnapshotClassForStorageClass: argument
    classItems,   \* snapshotClasses.Items the server returns
    vsServer,     \* the VolumeSnapshot's Status as the server holds it
    contentStore, \* names of the VolumeSnapshotContents the server holds
    vs,           \* getVolumeSnapshotContentForVolumeSnapshot: local `vs`
    fetches,      \* snapshot get-by-name calls issued (saturates at MaxPolls)
    notReady,     \* fetches that found no bound content name (saturates)
    sleeps,       \* time.Sleep calls made (saturates at MaxPolls)
    slept         \* seconds slept in those calls

vars == <<op, pc, ret, calls, pvc, pvStore, podItems, pvcName, pod, pods, idx,
          lookups, provisioner, classItems, vsServer, contentStore, vs,
          fetches, notReady, sleeps, slept>>

----------------------------------------------------------------------------
(* Bounds of the model. *)

MaxPods == 2

MaxClasses == 2

MaxPolls == 3

----------------------------------------------------------------------------
(* Go values. *)

ErrNil == [msg |-> "", cause |-> ""]

\* errors.Errorf(msg): a new error with no cause.
Errorf(msg) == [msg |-> msg, cause |-> ""]

\* A faulty Wrapf: the cause is dropped.
Wrapf_DropsCause(err, msg) == [msg |-> msg, cause |-> ""]

\* errors.Wrapf(err, msg) / errors.Wrap: a new error carrying err as cause.
Wrapf(err, msg) == [msg |-> msg, cause |-> err.msg]

\* errors.WithStack(err): the same error annotated with a stack.
WithStack(err) == err

\* What a remote call can answer besides success.
ErrTransport == Errorf("transport error")

ErrNotFound == Errorf("not found")

resticPodAnnotation == "backup.velero.io/backup-volumes"

ClaimBound == "Bound"

Sat(n) == IF n < MaxPolls THEN n + 1 ELSE n

\* time.Sleep(5 * time.Second)
SleepSeconds == 5

----------------------------------------------------------------------------
(* getPVForPVC *)

PVNames == {"pv-a", "pv-b"}

Phases == {"Pending", ClaimBound, "Lost"}

\* corev1.PersistentVolumes().Get(name): the volume, not found, or a
\* transport failure (transport drawn by the caller of this operator).
PersistentVolumesGet(name, transport) ==
    IF transport THEN [val |-> <<>>, err |-> ErrTransport]
    ELSE IF name \in pvStore THEN [val |-> <<[Name |-> name]>>, err |-> ErrNil]
    ELSE [val |-> <<>>, err |-> ErrNotFound]

VolumeNameEmpty(c) == c.Spec.VolumeName = ""

\* A faulty PhaseNotBound: the phase is not looked at.
PhaseNotBound_Unchecked(c) == FALSE

PhaseNotBound(c) == c.Status.Phase # ClaimBound

getPVForPVC ==
    /\ op = "getPVForPVC" /\ pc = "start"
    /\ pc' = "done"
    /\ IF VolumeNameEmpty(pvc)
       THEN /\ ret' = [val |-> <<>>, err |-> Errorf("has no volume backing this claim")]
            /\ calls' = calls
       ELSE IF PhaseNotBound(pvc)
       THEN /\ ret' = [val |-> <<>>, err |-> Errorf("is not bound to a volume")]
            /\ calls' = calls
       ELSE \E transport \in BOOLEAN :
              LET pvName == pvc.Spec.VolumeName
                  got == PersistentVolumesGet(pvName, transport)
              IN /\ calls' = Append(calls, [api |-> "PersistentVolumes.Get", key |-> pvName])
                 /\ ret' = IF got.err # ErrNil
                           THEN [val |-> <<>>, err |-> Wrapf(got.err, "failed to get PV")]
                           ELSE [val |-> got.val, err |-> ErrNil]
    /\ UNCHANGED <<op, pvc, pvStore, podItems, pvcName, pod, pods, idx, lookups,
                   provisioner, classItems, vsServer, contentStore, vs,
                   fetches, notReady, sleeps, slept>>

----------------------------------------------------------------------------
(* Pods: getPodsUsingPVC, getPodVolumeNameForPVC, getPodVolumesUsingRestic, *)
(* contains, isPVCBackedUpByRestic                                          *)

ClaimNames == {"pvc-a", "pvc-b"}

\* Names of a pod's volumes, by position: the API server admits a pod only
\* when its volume names are distinct.
MountNames == << <<"v">>, <<"w">> >>

\* A volume's claim source: nil (another kind of volume) or a claim reference.
\* Two volumes of one pod may reference the same claim.
ClaimSources == {<<>>, <<[ClaimName |-> "pvc-a"]>>}

\* Values of the restic annotation: missing, "", "w", "v,w".
AnnotationMaps ==
    {<<>>} \cup {[k \in {resticPodAnnotation} |-> a] :
                    a \in {<<>>, <<"w">>, <<"v", ",", "w">>}}

VolumeLists ==
    UNION {{[j \in 1..n |-> [Name |-> MountNames[j], PersistentVolumeClaim |-> f[j]]] :
              f \in [1..n -> ClaimSources]} : n \in 0..Len(MountNames)}

PodShapes == {[Volumes |-> v, Annotations |-> a] : v \in VolumeLists, a \in AnnotationMaps}

\* The pod of shape sh at position i of the namespace's list, named i.
PodAt(i, sh) ==
    [Name |-> i, Spec |-> [Volumes |-> sh.Volumes], Annotations |-> sh.Annotations]

\* corev1.Pods(ns).List: the items, or a failure (drawn by the caller).
PodsList(fails) ==
    IF fails THEN [val |-> <<>>, err |-> ErrTransport]
    ELSE [val |-> podItems, err |-> ErrNil]

\* v.PersistentVolumeClaim != nil && v.PersistentVolumeClaim.ClaimName == pvcName
VolumeUsesPVC(v, name) ==
    /\ v.PersistentVolumeClaim # <<>>
    /\ v.PersistentVolumeClaim[1].ClaimName = name

\* A faulty AppendPerVolume: any claim-backed volume counts, whatever its claim.
RECURSIVE AppendPerVolume_AnyClaim(_, _, _, _)
AppendPerVolume_AnyClaim(p, name, j, acc) ==
    IF j > Len(p.Spec.Volumes) THEN acc
    ELSE AppendPerVolume_AnyClaim(p, name, j + 1,
            IF p.Spec.Volumes[j].PersistentVolumeClaim # <<>> THEN Append(acc, p) ELSE acc)

\* The inner loop of getPodsUsingPVC over p.Spec.Volumes from position j:
\* p is appended once for every volume that uses the claim.
RECURSIVE AppendPerVolume(_, _, _, _)
AppendPerVolume(p, name, j, acc) ==
    IF j > Len(p.Spec.Volumes) THEN acc
    ELSE AppendPerVolume(p, name, j + 1,
            IF VolumeUsesPVC(p.Spec.Volumes[j], name) THEN Append(acc, p) ELSE acc)

\* The outer loop of getPodsUsingPVC over podList.Items from position i.
RECURSIVE RangePods(_, _, _, _)
RangePods(items, name, i, acc) ==
    IF i > Len(items) THEN acc
    ELSE RangePods(items, name, i + 1, AppendPerVolume(items[i], name, 1, acc))

\* A slice result is [nil, items]: a nil slice, or the (possibly empty) items.
getPodsUsingPVCFn(name, listFails) ==
    LET podList == PodsList(listFails)
    IN IF podList.err # ErrNil
       THEN [val |-> [nil |-> TRUE, items |-> <<>>], err |-> podList.err]
       ELSE [val |-> [nil |-> FALSE, items |-> RangePods(podList.val, name, 1, <<>>)],
             err |-> ErrNil]

RECURSIVE FirstVolumeFrom(_, _, _)
FirstVolumeFrom(p, name, j) ==
    IF j > Len(p.Spec.Volumes)
    THEN [val |-> <<>>, err |-> Errorf("does not use PVC")]
    ELSE IF VolumeUsesPVC(p.Spec.Volumes[j], name)
    THEN [val |-> p.Spec.Volumes[j].Name, err |-> ErrNil]
    ELSE FirstVolumeFrom(p, name, j + 1)

\* A faulty getPodVolumeNameForPVCFn: the scan does not stop at the first match.
RECURSIVE LastVolumeFrom(_, _, _, _)
LastVolumeFrom(p, name, j, best) ==
    IF j > Len(p.Spec.Volumes) THEN best
    ELSE LastVolumeFrom(p, name, j + 1,
            IF VolumeUsesPVC(p.Spec.Volumes[j], name)
            THEN [val |-> p.Spec.Volumes[j].Name, err |-> ErrNil] ELSE best)

getPodVolumeNameForPVCFn_LastMatch(p, name) ==
    LastVolumeFrom(p, name, 1, [val |-> <<>>, err |-> Errorf("does not use PVC")])

getPodVolumeNameForPVCFn(p, name) == FirstVolumeFrom(p, name, 1)

\* A Go map read: the zero value "" for a missing key.
MapGet(m, k) == IF k \in DOMAIN m THEN m[k] ELSE <<>>

\* strings.Split(s, sep) for a one-character sep, scanning s from position i
\* with the current piece cur: n separators give n + 1 pieces, "" gives [""].
RECURSIVE SplitFrom(_, _, _, _, _)
SplitFrom(s, sep, i, cur, out) ==
    IF i > Len(s) THEN Append(out, cur)
    ELSE IF s[i] = sep THEN SplitFrom(s, sep, i + 1, <<>>, Append(out, cur))
    ELSE SplitFrom(s, sep, i + 1, Append(cur, s[i]), out)

Split(s, sep) == SplitFrom(s, sep, 1, <<>>, <<>>)

getPodVolumesUsingRestic(p) ==
    LET resticAnnotation == MapGet(p.Annotations, resticPodAnnotation)
    IN IF resticAnnotation = <<>> THEN <<>>
       ELSE Split(MapGet(p.Annotations, resticPodAnnotation), ",")

RECURSIVE containsFrom(_, _, _)
containsFrom(slice, key, i) ==
    IF i > Len(slice) THEN FALSE
    ELSE IF slice[i] = key THEN TRUE
    ELSE containsFrom(slice, key, i + 1)

contains(slice, key) == containsFrom(slice, key, 1)

PodUnchanged == UNCHANGED <<op, pvc, pvStore, podItems, pvcName, pod,
                            provisioner, classItems, vsServer, contentStore, vs,
                            fetches, notReady, sleeps, slept>>

getPodsUsingPVC ==
    /\ op = "getPodsUsingPVC" /\ pc = "start"
    /\ \E listFails \in BOOLEAN :
         /\ ret' = getPodsUsingPVCFn(pvcName, listFails)
         /\ calls' = Append(calls, [api |-> "Pods.List", key |-> ""])
    /\ pc' = "done"
    /\ UNCHANGED <<pods, idx, lookups>>
    /\ PodUnchanged

getPodVolumeNameForPVC ==
    /\ op = "getPodVolumeNameForPVC" /\ pc = "start"
    /\ ret' = getPodVolumeNameForPVCFn(pod, pvcName)
    /\ pc' = "done"
    /\ UNCHANGED <<calls, pods, idx, lookups>>
    /\ PodUnchanged

\* isPVCBackedUpByRestic up to the range loop: pods, err := getPodsUsingPVC(...)
ResticListPods ==
    /\ op = "isPVCBackedUpByRestic" /\ pc = "start"
    /\ \E listFails \in BOOLEAN :
         LET r == getPodsUsingPVCFn(pvcName, listFails)
         IN /\ calls' = Append(calls, [api |-> "Pods.List", key |-> ""])
            /\ IF r.err # ErrNil
               THEN /\ ret' = [val |-> FALSE, err |-> WithStack(r.err)]
                    /\ pc' = "done"
                    /\ UNCHANGED <<pods, idx>>
               ELSE /\ pods' = r.val.items
                    /\ idx' = 1
                    /\ pc' = "range"
                    /\ ret' = ret
    /\ UNCHANGED lookups
    /\ PodUnchanged

\* One iteration of `for _, p := range pods`.
ResticRangePod ==
    /\ op = "isPVCBackedUpByRestic" /\ pc = "range" /\ idx <= Len(pods)
    /\ LET p == pods[idx]
           resticVols == getPodVolumesUsingRestic(p)
           found == getPodVolumeNameForPVCFn(p, pvcName)
       IN IF Len(resticVols) > 0
          THEN /\ lookups' = Append(lookups, [pod |-> p.Name, err |-> found.err])
               /\ IF found.err # ErrNil
                  THEN /\ ret' = [val |-> FALSE, err |-> found.err]
                       /\ pc' = "done" /\ idx' = idx
                  ELSE IF contains(resticVols, found.val)
                  THEN /\ ret' = [val |-> TRUE, err |-> ErrNil]
                       /\ pc' = "done" /\ idx' = idx
                  ELSE /\ idx' = idx + 1
                       /\ UNCHANGED <<ret, pc>>
          ELSE /\ idx' = idx + 1
               /\ UNCHANGED <<ret, pc, lookups>>
    /\ UNCHANGED <<calls, pods>>
    /\ PodUnchanged

\* The range loop is exhausted: return false, nil.
ResticNotBackedUp ==
    /\ op = "isPVCBackedUpByRestic" /\ pc = "range" /\ idx > Len(pods)
    /\ ret' = [val |-> FALSE, err |-> ErrNil]
    /\ pc' = "done"
    /\ UNCHANGED <<calls, pods, idx, lookups>>
    /\ PodUnchanged

----------------------------------------------------------------------------
(* getVolumeSnapshotClassForStorageClass *)

Drivers == {"d1", "d2"}

\* Class lists of the cluster: the class at position i is named i.
ClassLists ==
    UNION {{[i \in 1..n |-> [Name |-> i, Driver |-> f[i]]] :
              f \in [1..n -> Drivers]} : n \in 0..MaxClasses}

\* snapshotClient.VolumeSnapshotClasses().List
VolumeSnapshotClassesList(fails) ==
    IF fails THEN [val |-> <<>>, err |-> ErrTransport]
    ELSE [val |-> classItems, err |-> ErrNil]

DriverMatches(sc, prov) == sc.Driver = prov

\* A faulty FirstClassFrom: the scan starts from the end of the list.
RECURSIVE FirstClassFrom_Backwards(_, _, _)
FirstClassFrom_Backwards(items, prov, i) ==
    LET k == Len(items) + 1 - i
    IN IF i > Len(items)
       THEN [val |-> <<>>,
             err |-> Errorf("failed to get volumesnapshotclass for provisioner " \o prov)]
       ELSE IF DriverMatches(items[k], prov)
       THEN [val |-> <<items[k]>>, err |-> ErrNil]
       ELSE FirstClassFrom_Backwards(items, prov, i + 1)

\* for _, sc := range snapshotClasses.Items, from position i.
RECURSIVE FirstClassFrom(_, _, _)
FirstClassFrom(items, prov, i) ==
    IF i > Len(items)
    THEN [val |-> <<>>,
          err |-> Errorf("failed to get volumesnapshotclass for provisioner " \o prov)]
    ELSE IF DriverMatches(items[i], prov)
    THEN [val |-> <<items[i]>>, err |-> ErrNil]
    ELSE FirstClassFrom(items, prov, i + 1)

getVolumeSnapshotClassForStorageClass ==
    /\ op = "getVolumeSnapshotClassForStorageClass" /\ pc = "start"
    /\ \E listFails \in BOOLEAN :
         LET snapshotClasses == VolumeSnapshotClassesList(listFails)
         IN /\ calls' = Append(calls, [api |-> "VolumeSnapshotClasses.List", key |-> ""])
            /\ ret' = IF snapshotClasses.err # ErrNil
                      THEN [val |-> <<>>,
                            err |-> Wrapf(snapshotClasses.err,
                                          "error listing volumesnapshot classes")]
                      ELSE FirstClassFrom(snapshotClasses.val, provisioner, 1)
    /\ pc' = "done"
    /\ UNCHANGED <<op, pvc, pvStore, podItems, pvcName, pod, pods, idx, lookups,
                   provisioner, classItems, vsServer, contentStore, vs,
                   fetches, notReady, sleeps, slept>>

----------------------------------------------------------------------------
(* getVolumeSnapshotContentForVolumeSnapshot *)

ContentNames == {"c1", "c2"}

\* vs.Status: nil, or a status whose BoundVolumeSnapshotContentName is nil or
\* points to a name.
SnapshotStatuses ==
    {<<>>, <<[BoundVolumeSnapshotContentName |-> <<>>]>>}
    \cup {<<[BoundVolumeSnapshotContentName |-> <<c>>]>> : c \in ContentNames}

\* vs.Status == nil || vs.Status.BoundVolumeSnapshotContentName == nil
NotReconciled(status) ==
    \/ status = <<>>
    \/ status[1].BoundVolumeSnapshotContentName = <<>>

\* snapshotClient.VolumeSnapshotContents().Get(name)
VolumeSnapshotContentsGet(name, transport) ==
    IF transport THEN [val |-> <<>>, err |-> ErrTransport]
    ELSE IF name \in contentStore THEN [val |-> <<[Name |-> name]>>, err |-> ErrNil]
    ELSE [val |-> <<>>, err |-> ErrNotFound]

ContentUnchanged == UNCHANGED <<op, pvc, pvStore, podItems, pvcName, pod, pods, idx,
                                lookups, provisioner, classItems, contentStore>>

\* Faulty AfterNotReconciled: continue without sleeping; give up after one poll.
AfterNotReconciled_NoSleep == "pending"

AfterNotReconciled_GiveUp == "done"

\* Where the loop goes after a fetch that found the snapshot not reconciled:
\* log, time.Sleep, continue.
AfterNotReconciled == "sleep"

\* A faulty AfterContentError: the loop continues and fetches again.
AfterContentError_Retry == "pending"

\* Where the function goes after a failed content get: return nil, err.
AfterContentError == "done"

\* Top of the for loop: vs, err := VolumeSnapshots(ns).Get(name), then the
\* error check and the status check.
FetchSnapshot ==
    /\ op = "getVolumeSnapshotContentForVolumeSnapshot" /\ pc = "pending"
    /\ fetches' = Sat(fetches)
    /\ \E fails \in BOOLEAN :
         IF fails
         THEN /\ ret' = [val |-> <<>>,
                         err |-> Wrapf(ErrTransport, "failed to get volumesnapshot")]
              /\ pc' = "done"
              /\ UNCHANGED <<vs, notReady>>
         ELSE /\ vs' = vsServer
              /\ ret' = ret
              /\ IF NotReconciled(vsServer)
                 THEN /\ notReady' = Sat(notReady)
                      /\ pc' = AfterNotReconciled
                 ELSE /\ notReady' = notReady
                      /\ pc' = "ready"
    /\ UNCHANGED <<calls, vsServer, sleeps, slept>>
    /\ ContentUnchanged

\* time.Sleep(5 * time.Second); continue
Sleep ==
    /\ op = "getVolumeSnapshotContentForVolumeSnapshot" /\ pc = "sleep"
    /\ sleeps' = Sat(sleeps)
    /\ slept' = IF sleeps < MaxPolls THEN slept + SleepSeconds ELSE slept
    /\ pc' = "pending"
    /\ UNCHANGED <<ret, calls, vsServer, vs, fetches, notReady>>
    /\ ContentUnchanged

\* snapshotContent, err = VolumeSnapshotContents().Get(*vs.Status.Bound...)
GetContent ==
    /\ op = "getVolumeSnapshotContentForVolumeSnapshot" /\ pc = "ready"
    /\ \E transport \in BOOLEAN :
         LET name == vs[1].BoundVolumeSnapshotContentName[1]
             got == VolumeSnapshotContentsGet(name, transport)
         IN /\ calls' = Append(calls, [api |-> "VolumeSnapshotContents.Get", key |-> name])
            /\ IF got.err # ErrNil
               THEN /\ ret' = [val |-> <<>>,
                               err |-> Wrapf(got.err, "failed to get volumesnapshotcontent")]
                    /\ pc' = AfterContentError
               ELSE /\ ret' = [val |-> got.val, err |-> ErrNil]
                    /\ pc' = "done"
    /\ UNCHANGED <<vsServer, vs, fetches, notReady, sleeps, slept>>
    /\ ContentUnchanged

\* The external snapshot controller (not this code) rewrites the snapshot's
\* status while the helper runs.
ControllerReconcile ==
    /\ op = "getVolumeSnapshotContentForVolumeSnapshot" /\ pc # "done"
    /\ vsServer' \in SnapshotStatuses \ {vsServer}
    /\ UNCHANGED <<pc, ret, calls, vs, fetches, notReady, sleeps, slept>>
    /\ ContentUnchanged

----------------------------------------------------------------------------
(* Specifications *)

NoPod == [Name |-> 0, Spec |-> [Volumes |-> <<>>], Annotations |-> <<>>]

NoPVC == [Spec |-> [VolumeName |-> ""], Status |-> [Phase |-> ""]]

\* What every helper starts from; each Init below overrides its own inputs.
Idle ==
    /\ pc = "start"
    /\ ret = [val |-> <<>>, err |-> ErrNil]
    /\ calls = <<>>
    /\ pods = <<>> /\ idx = 0 /\ lookups = <<>>
    /\ vs = <<>> /\ fetches = 0 /\ notReady = 0 /\ sleeps = 0 /\ slept = 0

InitPV ==
    /\ op = "getPVForPVC"
    /\ pvc \in {[Spec |-> [VolumeName |-> n], Status |-> [Phase |-> ph]] :
                  n \in PVNames \cup {""}, ph \in Phases \cup {""}}
    /\ pvStore \in SUBSET PVNames
    /\ podItems = <<>> /\ pvcName = "" /\ pod = NoPod
    /\ provisioner = "" /\ classItems = <<>>
    /\ vsServer = <<>> /\ contentStore = {}
    /\ Idle

InitPods ==
    /\ op \in {"getPodsUsingPVC", "isPVCBackedUpByRestic"}
    /\ \E n \in 0..MaxPods : \E f \in [1..n -> PodShapes] :
          podItems = [i \in 1..n |-> PodAt(i, f[i])]
    /\ pvcName \in ClaimNames
    /\ pod = NoPod
    /\ pvc = NoPVC /\ pvStore = {}
    /\ provisioner = "" /\ classItems = <<>>
    /\ vsServer = <<>> /\ contentStore = {}
    /\ Idle

\* getPodVolumeNameForPVC is called on any pod, whether it uses the claim or not.
InitPodVolumeName ==
    /\ op = "getPodVolumeNameForPVC"
    /\ \E sh \in PodShapes : pod = PodAt(1, sh)
    /\ pvcName \in ClaimNames
    /\ podItems = <<>>
    /\ pvc = NoPVC /\ pvStore = {}
    /\ provisioner = "" /\ classItems = <<>>
    /\ vsServer = <<>> /\ contentStore = {}
    /\ Idle

InitClass ==
    /\ op = "getVolumeSnapshotClassForStorageClass"
    /\ provisioner \in Drivers
    /\ classItems \in ClassLists
    /\ pvc = NoPVC /\ pvStore = {}
    /\ podItems = <<>> /\ pvcName = "" /\ pod = NoPod
    /\ vsServer = <<>> /\ contentStore = {}
    /\ Idle

InitContent ==
    /\ op = "getVolumeSnapshotContentForVolumeSnapshot"
    /\ vsServer \in SnapshotStatuses
    /\ contentStore \in SUBSET ContentNames
    /\ pvc = NoPVC /\ pvStore = {}
    /\ podItems = <<>> /\ pvcName = "" /\ pod = NoPod
    /\ provisioner = "" /\ classItems = <<>>
    /\ ret = [val |-> <<>>, err |-> ErrNil]
    /\ calls = <<>>
    /\ pods = <<>> /\ idx = 0 /\ lookups = <<>>
    /\ vs = <<>> /\ fetches = 0 /\ notReady = 0 /\ sleeps = 0 /\ slept = 0
    /\ pc = "pending"

Init == InitPV \/ InitPods \/ InitPodVolumeName \/ InitClass \/ InitContent

NextContent == FetchSnapshot \/ Sleep \/ GetContent \/ ControllerReconcile

Next ==
    \/ getPVForPVC
    \/ getPodsUsingPVC
    \/ getPodVolumeNameForPVC
    \/ ResticListPods
    \/ ResticRangePod
    \/ ResticNotBackedUp
    \/ getVolumeSnapshotClassForStorageClass
    \/ NextContent

Spec == Init /\ [][Next]_vars

\* The helper runs in its caller's goroutine, which the Go scheduler keeps
\* running: each of its steps is taken once it is enabled.  Nothing is
\* assumed of the controller.
LiveSpec ==
    /\ InitContent
    /\ [][NextContent]_vars
    /\ WF_vars(FetchSnapshot) /\ WF_vars(Sleep) /\ WF_vars(GetContent)

----------------------------------------------------------------------------
(* Properties *)

Done(o) == op = o /\ pc = "done"

PVGet(name) == [api |-> "PersistentVolumes.Get", key |-> name]

\* C1: getPVForPVC fails with a NotBound error and issues no get-by-name call
\* whenever the claim's volume name is empty (whatever its phase) or its phase
\* is not Bound (even with a volume name); the get is reached only for a claim
\* in phase Bound with a non-empty volume name.
C1_NotBoundWithoutGet ==
    Done("getPVForPVC") =>
      /\ pvc.Spec.VolumeName = "" =>
           /\ ret = [val |-> <<>>, err |-> Errorf("has no volume backing this claim")]
           /\ calls = <<>>
      /\ (pvc.Spec.VolumeName # "" /\ pvc.Status.Phase # "Bound") =>
           /\ ret = [val |-> <<>>, err |-> Errorf("is not bound to a volume")]
           /\ calls = <<>>
      /\ calls # <<>> => (pvc.Status.Phase = "Bound" /\ pvc.Spec.VolumeName # "")

\* C1 witness: a Lost claim naming an existing volume was refused without a get.
C1_Witness ==
    /\ Done("getPVForPVC")
    /\ pvc.Spec.VolumeName = "pv-a" /\ pvc.Status.Phase = "Lost"
    /\ "pv-a" \in pvStore
    /\ ret.err = Errorf("is not bound to a volume")

\* C7: for a claim in phase Bound with a non-empty volume name, getPVForPVC
\* issues exactly one get-by-name, keyed by the claim's volume name; if the get
\* succeeds its volume is the result, and if it fails (not found or transport)
\* the result is no volume and an error wrapping the original cause.
C7_SingleGetNoRetry ==
    (Done("getPVForPVC") /\ pvc.Status.Phase = "Bound" /\ pvc.Spec.VolumeName # "") =>
      /\ calls = <<PVGet(pvc.Spec.VolumeName)>>
      /\ \/ /\ ret.err = ErrNil
            /\ pvc.Spec.VolumeName \in pvStore
            /\ ret.val = <<[Name |-> pvc.Spec.VolumeName]>>
         \/ /\ ret.val = <<>>
            /\ ret.err.msg = "failed to get PV"
            /\ ret.err.cause \in {ErrNotFound.msg, ErrTransport.msg}
      /\ pvc.Spec.VolumeName \notin pvStore => ret.err # ErrNil

\* C7 witness: a Bound claim whose volume the server does not hold: one get, not found.
C7_Witness ==
    /\ Done("getPVForPVC")
    /\ pvc.Spec.VolumeName = "pv-b" /\ pvc.Status.Phase = "Bound"
    /\ pvStore = {"pv-a"}
    /\ calls = <<PVGet("pv-b")>>
    /\ ret.err.cause = ErrNotFound.msg

\* Some mount spec of p references the claim.
MountsClaim(p, name) ==
    \E j \in DOMAIN p.Spec.Volumes :
        p.Spec.Volumes[j].PersistentVolumeClaim = <<[ClaimName |-> name]>>

\* The items of podItems that mount the claim, each once, in list order.
RECURSIVE MountingPodsFrom(_)
MountingPodsFrom(i) ==
    IF i > Len(podItems) THEN <<>>
    ELSE (IF MountsClaim(podItems[i], pvcName) THEN <<podItems[i]>> ELSE <<>>)
         \o MountingPodsFrom(i + 1)

\* C5: getPodsUsingPVC, when the list call succeeds, returns exactly the pods
\* of the list that mount the claim, each once, in list order, and an empty
\* non-nil list with no error when none does.
C5_EachPodOnce ==
    (Done("getPodsUsingPVC") /\ ret.err = ErrNil) =>
      /\ ret.val.nil = FALSE
      /\ ret.val.items = MountingPodsFrom(1)

\* m is one of the pieces of s between commas (m holds no comma).
IsCommaPiece(s, m) ==
    \E a \in 1..Len(s) : \E b \in a..Len(s) :
        /\ SubSeq(s, a, b) = m
        /\ a = 1 \/ s[a - 1] = ","
        /\ b = Len(s) \/ s[b + 1] = ","

\* Some mount of p references the claim and is named in p's annotation.
PodCoversClaim(p, name) ==
    \E j \in DOMAIN p.Spec.Volumes :
        /\ p.Spec.Volumes[j].PersistentVolumeClaim = <<[ClaimName |-> name]>>
        /\ resticPodAnnotation \in DOMAIN p.Annotations
        /\ IsCommaPiece(p.Annotations[resticPodAnnotation], p.Spec.Volumes[j].Name)

\* C2: isPVCBackedUpByRestic, when the list call succeeds, returns true if and
\* only if some pod of the namespace has a mount that references the claim and
\* whose name is in that pod's comma-split annotation, and false with no error
\* otherwise.
C2_ExistentialCoverage ==
    (Done("isPVCBackedUpByRestic") /\ calls # <<>> /\ ret.err = ErrNil) =>
      ret.val = (\E i \in DOMAIN podItems : PodCoversClaim(podItems[i], pvcName))

\* C10: inside isPVCBackedUpByRestic getPodVolumeNameForPVC is called only on
\* pods that mount the claim and never answers NotFound; the only error the
\* function returns is the list call's, with result false and before any pod
\* is inspected.
C10_NotFoundUnreachable ==
    op = "isPVCBackedUpByRestic" =>
      /\ \A k \in DOMAIN lookups :
            /\ lookups[k].err = ErrNil
            /\ \E i \in DOMAIN podItems :
                  podItems[i].Name = lookups[k].pod /\ MountsClaim(podItems[i], pvcName)
      /\ (pc = "done" /\ ret.err # ErrNil) =>
            /\ ret = [val |-> FALSE, err |-> ErrTransport]
            /\ idx = 0 /\ lookups = <<>>

\* C10 witness: two different annotated pods were looked up and neither covers the claim.
C10_Witness ==
    /\ Done("isPVCBackedUpByRestic")
    /\ Len(lookups) = 2
    /\ lookups[1].pod # lookups[2].pod
    /\ ret = [val |-> FALSE, err |-> ErrNil]

\* Positions of the mount specs of `pod` that reference the claim.
Referencing == {j \in DOMAIN pod.Spec.Volumes :
                  pod.Spec.Volumes[j].PersistentVolumeClaim = <<[ClaimName |-> pvcName]>>}

\* C8: getPodVolumeNameForPVC is a function of (pod, claimName) alone: it
\* returns the name of the first mount spec, in the pod's order, that
\* references the claim, and fails with NotFound if and only if none does.
C8_FirstMountName ==
    Done("getPodVolumeNameForPVC") =>
      /\ calls = <<>>
      /\ (ret.err # ErrNil) <=> (Referencing = {})
      /\ Referencing = {} => ret = [val |-> <<>>, err |-> Errorf("does not use PVC")]
      /\ Referencing # {} =>
            \E j \in Referencing :
               /\ \A k \in Referencing : j <= k
               /\ ret = [val |-> pod.Spec.Volumes[j].Name, err |-> ErrNil]

\* C8 witness: both mounts of the pod reference the claim and the first is returned.
C8_Witness ==
    /\ Done("getPodVolumeNameForPVC")
    /\ Referencing = {1, 2}
    /\ ret.val = <<"v">>

\* Positions of the listed classes whose driver is the provisioner.
Matching == {i \in DOMAIN classItems : classItems[i].Driver = provisioner}

\* C6: getVolumeSnapshotClassForStorageClass, when the list call succeeds,
\* returns the first class in list order whose driver equals the provisioner
\* (also when several share the driver) and fails with a NotFound error naming
\* the provisioner if and only if no listed class has that driver.
C6_FirstMatchingClass ==
    (Done("getVolumeSnapshotClassForStorageClass")
       /\ ret.err.msg # "error listing volumesnapshot classes") =>
      /\ (ret.err # ErrNil) <=> (Matching = {})
      /\ Matching = {} =>
            /\ ret.val = <<>>
            /\ ret.err = Errorf("failed to get volumesnapshotclass for provisioner "
                                \o provisioner)
      /\ Matching # {} =>
            \E i \in Matching :
               /\ \A k \in Matching : i <= k
               /\ ret.val = <<classItems[i]>>

\* C6 witness: two classes share the provisioner's driver and the first is returned.
C6_Witness ==
    /\ Done("getVolumeSnapshotClassForStorageClass")
    /\ Matching = {1, 2}
    /\ ret.val = <<classItems[1]>>

\* No pod of the list references the claim from two of its mount specs.
NoDoubleMount ==
    \A i \in DOMAIN podItems :
        Cardinality({j \in DOMAIN podItems[i].Spec.Volumes :
            podItems[i].Spec.Volumes[j].PersistentVolumeClaim
                = <<[ClaimName |-> pvcName]>>}) <= 1

\* Where C5 and C2 stand on the code: both hold on every list in which no pod
\* references the claim twice.
C5_HoldsWithoutDoubleMount == NoDoubleMount => C5_EachPodOnce

C2_HoldsWithoutDoubleMount == NoDoubleMount => C2_ExistentialCoverage

Content == "getVolumeSnapshotContentForVolumeSnapshot"

ContentGet(name) == [api |-> "VolumeSnapshotContents.Get", key |-> name]

\* C3: content resolution sleeps exactly once per not-ready fetch: after k
\* fetches that found no bound content name and a fetch k+1 that found one,
\* exactly k sleeps have been made, all before the single content get, which
\* is keyed by the name seen in fetch k+1, and the content returned is the one
\* of that name.  (A counter at MaxPolls reads "MaxPolls or more".)
C3_OneSleepPerNotReadyFetch ==
    op = Content =>
      /\ slept = sleeps * 5
      /\ pc \in {"pending", "ready"} => (sleeps = notReady /\ calls = <<>>)
      /\ pc = "sleep" => (notReady = Sat(sleeps) /\ calls = <<>>)
      /\ pc = "ready" => (vs \in SnapshotStatuses /\ ~NotReconciled(vs)
                          /\ fetches = Sat(notReady))
      /\ calls # <<>> =>
            /\ pc = "done"
            /\ sleeps = notReady
            /\ fetches = Sat(notReady)
            /\ vs # <<>> /\ vs[1].BoundVolumeSnapshotContentName # <<>>
            /\ calls = <<ContentGet(vs[1].BoundVolumeSnapshotContentName[1])>>
            /\ ret.err = ErrNil =>
                  ret.val = <<[Name |-> vs[1].BoundVolumeSnapshotContentName[1]]>>

\* C3 witness: two not-ready fetches, two sleeps, then content c2 returned although the
\* controller has since rewritten the status.
C3_Witness ==
    /\ Done(Content)
    /\ notReady = 2 /\ fetches = 3 /\ sleeps = 2 /\ slept = 10
    /\ calls = <<ContentGet("c2")>>
    /\ ret = [val |-> <<[Name |-> "c2"]>>, err |-> ErrNil]
    /\ vsServer # vs

\* C4: in content resolution every remote error is terminal: the step that
\* gets an error from the snapshot get or from the content get returns a
\* wrapped error and no content, and once returned nothing more is fetched,
\* slept or looked up.
C4_RemoteErrorsTerminal ==
    [][op = Content =>
         /\ ret'.err # ErrNil =>
               /\ pc' = "done"
               /\ ret'.val = <<>>
               /\ ret'.err.cause \in {ErrNotFound.msg, ErrTransport.msg}
               /\ ret'.err.msg \in {"failed to get volumesnapshot",
                                    "failed to get volumesnapshotcontent"}
         /\ (fetches' # fetches /\ ~(pc' \in {"sleep", "ready"})) =>
               (pc' = "done" /\ ret'.err.msg = "failed to get volumesnapshot")
         /\ calls' # calls => pc' = "done"
         /\ pc = "done" => UNCHANGED <<pc, ret, calls, fetches, sleeps, slept>>]_vars

\* C4 witness: after one sleep the content get answered not found and the helper returned.
C4_Witness ==
    /\ Done(Content)
    /\ sleeps = 1
    /\ ret.err = [msg |-> "failed to get volumesnapshotcontent", cause |-> ErrNotFound.msg]

SnapshotGetFailed == ret.err.msg = "failed to get volumesnapshot"

\* C9: content resolution leaves the polling loop only by observing a bound
\* content name or by a failed snapshot get.  Under fair scheduling of the
\* helper, if snapshot gets never fail and the controller eventually sets the
\* bound content name and keeps it set, the helper terminates; and while every
\* fetch succeeds and finds no bound content name it sleeps again and again
\* and never terminates.
C9_PollsUntilBound ==
    /\ [][(pc = "pending" /\ pc' # "pending") =>
             \/ pc' = "done" /\ SnapshotGetFailed'
             \/ pc' = "ready" /\ ~NotReconciled(vs')
             \/ pc' = "sleep" /\ NotReconciled(vs')]_vars
    /\ [][(pc = "sleep" /\ pc' # "sleep") => pc' = "pending"]_vars
    /\ (<>[](~NotReconciled(vsServer)) /\ [](~SnapshotGetFailed)) => <>(pc = "done")
    /\ ([]NotReconciled(vsServer) /\ [](~SnapshotGetFailed)) =>
          ([](pc # "done") /\ []<>(pc = "sleep") /\ []<>(pc = "pending"))

\* C9 witness: the helper returned the content after MaxPolls or more sleeps.
C9_Witness ==
    /\ Done(Content)
    /\ notReady = MaxPolls /\ sleeps = MaxPolls
    /\ ret.err = ErrNil

====
